---- MODULE Spec2Model ----
(***************************************************************************)
(* Model of generator-teams: the `teams` Yeoman generator                  *)
(* (GeneratorTeamsApp: constructor, initializing, prompting, writing,      *)
(* install, end) and the editor command that triggers it                   *)
(* (Scaffolder.createProject).                                             *)
(*                                                                         *)
(* Strings the code computes with are sequences of one-character strings.  *)
(* A JavaScript value that may be undefined is a sequence of length 0      *)
(* (undefined) or 1 (the value).                                           *)
(***************************************************************************)
EXTENDS Integers, Sequences, FiniteSets, TLC

----------------------------------------------------------------------------
(* Bounds of the model *)

\* how many times the operator runs the generator in a row (new projects)
MaxRuns == 2
\* how many names the operator types into the solution-name input box
MaxTyped == 2

----------------------------------------------------------------------------
(* undefined / defined values *)

Undefined == <<>>
Some(v) == <<v>>
IsDef(x) == x # <<>>
Val(x) == x[1]
Opt(S) == {Undefined} \cup {Some(v) : v \in S}

\* JavaScript truthiness of an optional string (the empty string is falsy)
TruthyStr(x) == IsDef(x) /\ Val(x) # <<>>
\* JavaScript truthiness of an optional boolean
TruthyBool(x) == IsDef(x) /\ Val(x) = TRUE
\* x || y on optional values, string flavour
OrElseStr(x, y) == IF TruthyStr(x) THEN x ELSE y

----------------------------------------------------------------------------
(* String functions of the JavaScript runtime, as the code uses them *)

UpperLetters == <<"A","B","C","D","E","F","G","H","I","J","K","L","M",
                  "N","O","P","Q","R","S","T","U","V","W","X","Y","Z">>
LowerLetters == <<"a","b","c","d","e","f","g","h","i","j","k","l","m",
                  "n","o","p","q","r","s","t","u","v","w","x","y","z">>

LetterIndex(letters, c) == CHOOSE i \in 1..Len(letters) : letters[i] = c
IsUpper(c) == \E i \in 1..Len(UpperLetters) : UpperLetters[i] = c
IsLower(c) == \E i \in 1..Len(LowerLetters) : LowerLetters[i] = c
LowerChar(c) == IF IsUpper(c) THEN LowerLetters[LetterIndex(UpperLetters, c)] ELSE c
UpperChar(c) == IF IsLower(c) THEN UpperLetters[LetterIndex(LowerLetters, c)] ELSE c

\* String.prototype.toLocaleLowerCase
ToLocaleLowerCase(s) == [i \in 1..Len(s) |-> LowerChar(s[i])]

Min(a, b) == IF a < b THEN a ELSE b
Max(a, b) == IF a > b THEN a ELSE b

\* String.prototype.indexOf: 0-based position of the first occurrence, or -1
IndexOf(s, sub) ==
    LET hits == {i \in 0..(Len(s) - Len(sub)) : SubSeq(s, i + 1, i + Len(sub)) = sub}
    IN  IF hits = {} THEN -1 ELSE CHOOSE i \in hits : \A j \in hits : i <= j

\* String.prototype.substring(from, to): both ends clamped, swapped when from > to
Substring(s, from, to) ==
    LET a == Min(Max(from, 0), Len(s))
        b == Min(Max(to, 0), Len(s))
    IN  SubSeq(s, Min(a, b) + 1, Max(a, b))

\* String.prototype.substring(from)
SubstringFrom(s, from) == Substring(s, from, Len(s))

\* String.prototype.substr(from, length), for from >= 0
Substr(s, from, length) == SubSeq(s, from + 1, Min(from + Max(length, 0), Len(s)))

\* String.prototype.endsWith, for a one-character suffix
EndsWith(s, c) == Len(s) > 0 /\ s[Len(s)] = c

\* String.prototype.split on a one-character separator
RECURSIVE Split(_, _)
Split(s, sep) ==
    LET i == IndexOf(s, <<sep>>)
    IN  IF i < 0 THEN <<s>>
        ELSE <<SubSeq(s, 1, i)>> \o Split(SubSeq(s, i + 2, Len(s)), sep)

\* Array.prototype.join with a one-character separator
RECURSIVE Join(_, _)
Join(parts, sep) ==
    IF Len(parts) = 0 THEN <<>>
    ELSE IF Len(parts) = 1 THEN parts[1]
    ELSE parts[1] \o <<sep>> \o Join(Tail(parts), sep)

\* lodash.reverse
Reverse(a) == [i \in 1..Len(a) |-> a[Len(a) + 1 - i]]

\* lodash.camelCase, for names made of letters, digits and '-', '_', ' ' separators
\* whose words carry no inner capital: the words are lower-cased, every word but
\* the first is capitalised, and the words are concatenated
IsSeparator(c) == c \in {"-", "_", " "}
RECURSIVE Words(_)
Words(s) ==
    LET seps == {i \in 1..Len(s) : IsSeparator(s[i])}
    IN  IF seps = {} THEN (IF s = <<>> THEN <<>> ELSE <<s>>)
        ELSE LET i == CHOOSE k \in seps : \A j \in seps : k <= j
             IN  (IF i = 1 THEN <<>> ELSE <<SubSeq(s, 1, i - 1)>>)
                 \o Words(SubSeq(s, i + 1, Len(s)))
Capitalize(w) == <<UpperChar(w[1])>> \o Tail(w)
RECURSIVE Concat(_)
Concat(ws) == IF Len(ws) = 0 THEN <<>> ELSE ws[1] \o Concat(Tail(ws))
CamelCase(s) ==
    LET ws == Words(s)
        lw == [i \in 1..Len(ws) |-> ToLocaleLowerCase(ws[i])]
    IN  Concat([i \in 1..Len(lw) |-> IF i = 1 THEN lw[i] ELSE Capitalize(lw[i])])

----------------------------------------------------------------------------
(* Literals of the program and the inputs the model draws from *)

Https == <<"h","t","t","p","s",":","/","/">>
SchemeSeparator == <<":","/","/">>
AzureWebSites == <<"a","z","u","r","e","w","e","b","s","i","t","e","s",".","n","e","t">>
\* '[your Azure web app name]'
WebsitePrefixPlaceholder ==
    <<"[","y","o","u","r"," ","A","z","u","r","e"," ","w","e","b"," ",
      "a","p","p"," ","n","a","m","e","]">>

\* https://Foo.azurewebsites.net/
HostFooSlash == Https \o <<"F","o","o",".">> \o AzureWebSites \o <<"/">>
\* https://Foo.azurewebsites.net
HostFoo == Https \o <<"F","o","o",".">> \o AzureWebSites
\* https://example.org
HostExample == Https \o <<"e","x","a","m","p","l","e",".","o","r","g">>
\* https://myapp.azurewebsites.net
HostMyApp == Https \o <<"m","y","a","p","p",".">> \o AzureWebSites
\* https://azurewebsites.net.example.org
HostUnderExample ==
    Https \o AzureWebSites \o <<".","e","x","a","m","p","l","e",".","o","r","g">>
\* the host answers the operator may give (all pass Yotilities.validateUrl)
HostAnswers == {HostFooSlash, HostExample, HostMyApp, HostUnderExample}

\* my-app, teams-app
NameMyApp == <<"m","y","-","a","p","p">>
NameTeamsApp == <<"t","e","a","m","s","-","a","p","p">>
\* MPN id answers: left blank, or a partner id
MpnIdAnswers == {<<>>, <<"6","1","2">>}

\* pkg.version of the running generator, and the version assumed when none is stored
PkgVersion == "pkg.version"
DefaultGeneratorVersion == "3.0.0"
\* generator versions a project may have stored
StoredVersions == {"2.9.0", "3.5.0", PkgVersion}

\* the generator's description (this.description)
GeneratorDescription == "Generate a Microsoft Teams application."
EmptyGuid == "00000000-0000-0000-0000-000000000000"

\* ManifestGeneratorFactory.supportedManifestVersions
SupportedManifestVersions ==
    << [manifestVersion |-> "v1.12", schema |-> "schema-1.12", value |-> "1.12",
        hide |-> FALSE, default |-> FALSE],
       [manifestVersion |-> "v1.13", schema |-> "schema-1.13", value |-> "1.13",
        hide |-> FALSE, default |-> TRUE],
       [manifestVersion |-> "devPreview", schema |-> "schema-devPreview", value |-> "devPreview",
        hide |-> TRUE, default |-> FALSE] >>

\* ManifestGenerator.supportsUpdateManifest(from) of the generator for version `to`
SupportsUpdateManifest(to, from) ==
    \/ to = "v1.13" /\ from \in {"1.12"}
    \/ to = "devPreview" /\ from \in {"1.12", "1.13"}

\* ManifestGeneratorFactory.isSchemaVersionValid
IsSchemaVersionValid(existingManifest) ==
    \/ ~IsDef(existingManifest)
    \/ \E i \in 1..Len(SupportedManifestVersions) :
          SupportedManifestVersions[i].schema = Val(existingManifest).schema

\* ManifestGeneratorFactory.getManifestVersionFromValue
GetManifestVersionFromValue(value) ==
    LET hits == {i \in 1..Len(SupportedManifestVersions) :
                    SupportedManifestVersions[i].value = value}
    IN  IF hits = {} THEN Undefined
        ELSE Some(SupportedManifestVersions[CHOOSE i \in hits : TRUE].manifestVersion)

\* CoreFilesUpdaterFactory.createCoreFilesUpdater: is there an updater for the version
HasCoreFilesUpdater(currentVersion) == currentVersion \in {"3.5.0"}

\* manifests a project folder may hold in src/manifest/manifest.json
ExistingManifests ==
    { [schema |-> "schema-1.12", manifestVersion |-> "1.12", nameShort |-> "Old App",
       developerName |-> "Contoso", websiteUrl |-> HostExample],
      [schema |-> "schema-1.13", manifestVersion |-> "1.13", nameShort |-> "Old App",
       developerName |-> "Contoso", websiteUrl |-> HostMyApp],
      [schema |-> "schema-1.5", manifestVersion |-> "1.5", nameShort |-> "Old App",
       developerName |-> "Contoso", websiteUrl |-> HostExample] }

\* the subset of parts the operator ticks
PartsNewProject ==
    { {}, {"tab", "localization"},
      {"bot", "connector", "custombot", "messageextension"} }
\* bot, custombot and connector are disabled choices on an existing project
PartsExistingProject == { {}, {"tab"}, {"messageextension", "localization"} }

\* arguments the generator may be started with
NoArguments ==
    [solutionName |-> Undefined, name |-> Undefined, developer |-> Undefined,
     manifestVersion |-> Undefined, quickScaffolding |-> Undefined,
     host |-> Undefined, showLoadingIndicator |-> Undefined, tab |-> Undefined]
NamedArguments ==
    [NoArguments EXCEPT !.solutionName = Some(NameTeamsApp), !.name = Some("Teams App"),
                        !.developer = Some("Fabrikam"), !.manifestVersion = Some("v1.12")]
HostArguments ==
    [NoArguments EXCEPT !.host = Some(HostExample), !.showLoadingIndicator = Some(TRUE),
                        !.tab = Some(TRUE)]

----------------------------------------------------------------------------
(* State *)

VARIABLES
    \* the generator (GeneratorTeamsApp)
    phase,            \* the run-loop method the generator is in, or is about to run
    status,           \* "running", "exited" (process.exit) or "crashed" (uncaught error)
    exitCode,         \* {} or {n}: the argument of the process.exit call made
    run,              \* which run of the generator this is
    clock,            \* the time the process started at (uuid v1 is time based)
    args,             \* the arguments the generator was started with
    envOptOut,        \* YOTEAMS_TELEMETRY_OPTOUT is "1" or "true"
    clientSetUp,      \* AppInsights.setup was called: AppInsights.defaultClient exists
    options,          \* this.options
    answers,          \* the answers the prompt series resolved with
    config,           \* this.config, the project-local store (.yo-rc.json)
    webpackLibraryName, \* the library name webpack.config.js declares, if any
    files,            \* the paths written through this.fs
    manifestJson,     \* what was written to src/manifest/manifest.json, if anything
    packageJson,      \* dependencies, scripts and nodes added to package.json
    destinationRoot,  \* "cwd", or "subdir" after destinationRoot(solutionName)
    events,           \* names of the telemetry events and exceptions tracked
    lastOptions,      \* resolvedOptions of the previous run
    lastAnswers,      \* the answers of the previous run
    resolvedOptions,  \* this.options as option resolution left it, this run
    \* the editor command (Scaffolder.createProject)
    tpc,              \* the command's position
    wsFolder,         \* the workspace folder's path, if a workspace is open
    existingFolders,  \* the paths that exist on disk
    folderPath,       \* the parent folder obtained
    inputValue,       \* the text in the solution-name input box
    typed,            \* how many names the operator typed
    solutionName,     \* the solution name obtained
    invocations,      \* the (folder, command) pairs the executer was called with
    commandResult,    \* the completion status of the subprocess
    platform,         \* getPlatform()
    markerFiles,      \* the (path, content, encoding) triples written
    openedFolders,    \* the folders the open-folder command was issued for
    notifications,    \* the notifications shown to the operator
    logged,           \* the Logger entries of kind warning and error
    unhandled         \* a rejected promise nothing handles

genVars == <<phase, status, exitCode, run, clock, args, envOptOut, clientSetUp, options,
             answers, config, webpackLibraryName, files, manifestJson, packageJson,
             destinationRoot, events, lastOptions, lastAnswers, resolvedOptions>>
cmdVars == <<tpc, wsFolder, existingFolders, folderPath, inputValue, typed, solutionName,
             invocations, commandResult, platform, markerFiles, openedFolders,
             notifications, logged, unhandled>>
vars == <<genVars, cmdVars>>

----------------------------------------------------------------------------
(* The generator: constructor *)

TeamsNamespace == <<"t","e","a","m","s">>

\* this.options after the constructor: the arguments, the namespace, the telemetry
\* option and the manifest read from ./src/manifest/manifest.json
ConstructedOptions(a, telemetry, manifest) ==
    [telemetry |-> telemetry, existingManifest |-> manifest,
     namespace |-> Some(TeamsNamespace),
     solutionName |-> a.solutionName, name |-> a.name, developer |-> a.developer,
     manifestVersion |-> a.manifestVersion, quickScaffolding |-> a.quickScaffolding,
     host |-> a.host, showLoadingIndicator |-> a.showLoadingIndicator, tab |-> a.tab,
     title |-> Undefined, description |-> Undefined, shouldUseSubDir |-> Undefined,
     libraryName |-> Undefined, packageName |-> Undefined, hostname |-> Undefined,
     mpnId |-> Undefined, id |-> Undefined, websitePrefix |-> Undefined,
     isFullScreen |-> Undefined, unitTestsEnabled |-> Undefined,
     lintingSupport |-> Undefined, useAzureAppInsights |-> Undefined,
     azureAppInsightsKey |-> Undefined, updateManifestVersion |-> Undefined,
     updateBuildSystem |-> Undefined, bot |-> Undefined, connector |-> Undefined,
     customBot |-> Undefined, messageExtension |-> Undefined,
     localization |-> Undefined, reactComponents |-> Undefined]

\* TelemetrySetUp with the environment opt-out ignored
TelemetrySetUpWithoutOptOut(telemetry, optOut) == telemetry

\* the telemetry client is set up only with the option on and no opt-out
TelemetrySetUp(telemetry, optOut) == telemetry /\ ~optOut

NoAnswers ==
    [confirmedAdd |-> Undefined, updateBuildSystem |-> Undefined,
     solutionName |-> Undefined, whichFolder |-> Undefined, name |-> Undefined,
     developer |-> Undefined, updateManifestVersion |-> Undefined,
     manifestVersion |-> Undefined, quickScaffolding |-> Undefined,
     mpnId |-> Undefined, parts |-> Undefined, host |-> Undefined,
     showLoadingIndicator |-> Undefined, isFullScreen |-> Undefined,
     unitTestsEnabled |-> Undefined, lintingSupport |-> Undefined,
     useAzureAppInsights |-> Undefined, azureAppInsightsKey |-> Undefined]

EmptyConfig ==
    [generatorVersion |-> Undefined, libraryName |-> Undefined,
     useAzureAppInsights |-> Undefined, unitTestsEnabled |-> Undefined]

\* project folders the generator may be started in: an empty folder, or a project
\* generated earlier (a manifest, a store, a webpack.config.js)
ProjectFolders ==
    { [manifest |-> Undefined, config |-> EmptyConfig, webpack |-> Undefined] }
    \cup
    { [manifest |-> Some(m),
       config |-> [generatorVersion |-> gv, libraryName |-> ln[1],
                   useAzureAppInsights |-> ai, unitTestsEnabled |-> Undefined],
       webpack |-> ln[2]] :
         m \in ExistingManifests, gv \in Opt(StoredVersions),
         ln \in { <<Undefined, Undefined>>, <<Some("storedLib"), Undefined>>,
                  <<Some("storedLib"), Some("webpackLib")>> },
         ai \in {Undefined, Some(TRUE)} }

\* the state of the command while the generator is looked at alone
CommandIdle ==
    /\ tpc = "idle"
    /\ wsFolder = Undefined
    /\ existingFolders = {}
    /\ folderPath = Undefined
    /\ inputValue = Undefined
    /\ typed = 0
    /\ solutionName = Undefined
    /\ invocations = <<>>
    /\ commandResult = Undefined
    /\ platform = "linux"
    /\ markerFiles = {}
    /\ openedFolders = <<>>
    /\ notifications = <<>>
    /\ logged = <<>>
    /\ unhandled = FALSE

\* a generator process started in folder f with arguments a
Constructed(f, a, telemetry, optOut) ==
    /\ phase = "initializing"
    /\ status = "running"
    /\ exitCode = {}
    /\ args = a
    /\ envOptOut = optOut
    /\ clientSetUp = TelemetrySetUp(telemetry, optOut)
    /\ options = ConstructedOptions(a, telemetry, f.manifest)
    /\ answers = NoAnswers
    /\ config = f.config
    /\ webpackLibraryName = f.webpack
    /\ files = {}
    /\ manifestJson = Undefined
    /\ packageJson = {}
    /\ destinationRoot = "cwd"
    /\ events = IF TelemetrySetUp(telemetry, optOut) THEN {"start-generator"} ELSE {}
    /\ resolvedOptions = Undefined

FirstRun ==
    /\ run = 1
    /\ clock = 1
    /\ lastOptions = Undefined
    /\ lastAnswers = Undefined

Init ==
    /\ \E f \in ProjectFolders, telemetry \in BOOLEAN, optOut \in BOOLEAN :
         \E a \in (IF IsDef(f.manifest) THEN {NoArguments, HostArguments}
                   ELSE {NoArguments, NamedArguments}) :
            Constructed(f, a, telemetry, optOut)
    /\ FirstRun
    /\ CommandIdle

\* the generator started in an empty folder, telemetry working
InitNewProject ==
    /\ \E f \in {g \in ProjectFolders : ~IsDef(g.manifest)}, telemetry \in BOOLEAN :
         \E a \in {NoArguments, NamedArguments} :
            Constructed(f, a, telemetry, FALSE)
    /\ FirstRun
    /\ CommandIdle

----------------------------------------------------------------------------
(* The generator: initializing *)

Running(p) == status = "running" /\ phase = p

\* AppInsights.defaultClient.trackEvent / trackException behind `if (options.telemetry)`:
\* with the option on and no client set up the call throws a TypeError
TelemetryThrows == options.telemetry /\ ~clientSetUp
Tracked(names) == IF options.telemetry THEN events \cup names ELSE events

Crash ==
    /\ status' = "crashed"
    /\ UNCHANGED <<phase, exitCode, events>>

ProcessExit(code) ==
    /\ status' = "exited"
    /\ exitCode' = {code}
    /\ UNCHANGED phase

ExitUnsupportedSchema == 1
ExitNoUpdater == 2
ExitNothingToUpdate == 3
ExitUpdaterFailed == 4
ExitDeclined == 0

Initializing ==
    /\ Running("initializing")
    /\ IF IsSchemaVersionValid(options.existingManifest)
       THEN /\ phase' = "prompting"
            /\ UNCHANGED <<status, exitCode, events>>
       ELSE IF TelemetryThrows
       THEN Crash
       ELSE /\ events' = Tracked({"rerun-generator", "exception:Invalid schema"})
            /\ ProcessExit(ExitUnsupportedSchema)
    /\ UNCHANGED <<run, clock, args, envOptOut, clientSetUp, options, answers, config,
                   webpackLibraryName, files, manifestJson, packageJson,
                   destinationRoot, lastOptions, lastAnswers, resolvedOptions, cmdVars>>

----------------------------------------------------------------------------
(* The generator: prompting, the question series *)

\* this.options.existingManifest is truthy
HasManifest(o) == IsDef(o.existingManifest)

\* Versions with every supported version kept
VersionsUnfiltered(o) == 1..Len(SupportedManifestVersions)

\* the manifest versions offered: the indexes into SupportedManifestVersions kept
\* by the filter
Versions(o) ==
    {i \in 1..Len(SupportedManifestVersions) :
        IF HasManifest(o)
        THEN SupportsUpdateManifest(SupportedManifestVersions[i].manifestVersion,
                                    Val(o.existingManifest).manifestVersion)
        ELSE ~SupportedManifestVersions[i].hide}

VersionChoices(o) == {SupportedManifestVersions[i].manifestVersion : i \in Versions(o)}

\* config.get("generator-version"), "3.0.0" when there is none
GeneratorVersion(c) ==
    IF IsDef(c.generatorVersion) THEN Val(c.generatorVersion) ELSE DefaultGeneratorVersion

QuestionNames ==
    <<"confirmedAdd", "updateBuildSystem", "solutionName", "whichFolder", "name",
      "developer", "updateManifestVersion", "manifestVersion", "quickScaffolding",
      "mpnId", "parts", "host", "showLoadingIndicator", "isFullScreen",
      "unitTestsEnabled", "lintingSupport", "useAzureAppInsights",
      "azureAppInsightsKey">>

\* answers.confirmedAdd != false and answers.confirmedAdd == false (loose equality:
\* undefined is not equal to false)
NotFalse(x) == ~IsDef(x) \/ Val(x) # FALSE
IsFalse(x) == IsDef(x) /\ Val(x) = FALSE

\* the `when` of each question, given the answers so far
When(q, a, o, c) ==
    CASE q = "confirmedAdd" -> HasManifest(o)
      [] q = "updateBuildSystem" ->
            /\ HasManifest(o)
            /\ GeneratorVersion(c) # PkgVersion
            /\ TruthyBool(a.confirmedAdd)
      [] q = "solutionName" -> ~(TruthyStr(o.solutionName) \/ HasManifest(o))
      [] q = "whichFolder" -> ~(TruthyStr(o.solutionName) \/ HasManifest(o))
      [] q = "name" -> ~(IsDef(o.name) \/ HasManifest(o))
      [] q = "developer" -> ~(IsDef(o.developer) \/ HasManifest(o))
      [] q = "updateManifestVersion" ->
            /\ HasManifest(o)
            /\ Cardinality(Versions(o)) > 0
            /\ NotFalse(a.confirmedAdd)
      [] q = "manifestVersion" ->
            \/ /\ HasManifest(o)
               /\ TruthyBool(a.updateManifestVersion)
               /\ Cardinality(Versions(o)) > 0
            \/ ~(IsDef(o.manifestVersion) \/ HasManifest(o))
      [] q = "quickScaffolding" -> ~(TruthyBool(o.quickScaffolding) \/ HasManifest(o))
      [] q = "mpnId" -> ~TruthyBool(a.quickScaffolding) /\ ~HasManifest(o)
      [] q = "parts" -> NotFalse(a.confirmedAdd) \/ ~TruthyBool(o.tab)
      [] q = "host" -> ~HasManifest(o) \/ ~TruthyStr(o.host)
      [] q = "showLoadingIndicator" ->
            ~HasManifest(o) \/ ~TruthyBool(o.showLoadingIndicator)
      [] q = "isFullScreen" -> ~TruthyBool(a.quickScaffolding) /\ ~HasManifest(o)
      [] q = "unitTestsEnabled" -> ~HasManifest(o) /\ ~TruthyBool(a.quickScaffolding)
      [] q = "lintingSupport" -> ~HasManifest(o) /\ ~TruthyBool(a.quickScaffolding)
      [] q = "useAzureAppInsights" -> ~HasManifest(o) /\ ~TruthyBool(a.quickScaffolding)
      [] q = "azureAppInsightsKey" -> TruthyBool(a.useAzureAppInsights)

\* what the operator can answer to each question
Choices(q, o) ==
    CASE q = "solutionName" -> {NameMyApp}
      [] q = "whichFolder" -> {"current", "subdir"}
      [] q = "name" -> {"My App"}
      [] q = "developer" -> {"Contoso"}
      [] q = "manifestVersion" -> VersionChoices(o)
      [] q = "mpnId" -> MpnIdAnswers
      [] q = "parts" -> IF HasManifest(o) THEN PartsExistingProject ELSE PartsNewProject
      [] q = "host" -> HostAnswers
      [] q = "azureAppInsightsKey" -> {EmptyGuid}
      [] OTHER -> BOOLEAN

\* the answer records the series can resolve with, asking from question i on
RECURSIVE AskFrom(_, _, _, _)
AskFrom(i, a, o, c) ==
    IF i > Len(QuestionNames) THEN {a}
    ELSE LET q == QuestionNames[i]
         IN  IF When(q, a, o, c)
             THEN UNION {AskFrom(i + 1, [a EXCEPT ![q] = Some(v)], o, c) : v \in Choices(q, o)}
             ELSE AskFrom(i + 1, a, o, c)

\* a is one of the answer records the series can resolve with
Resolvable(a, o, c) ==
    \A i \in 1..Len(QuestionNames) :
        LET q == QuestionNames[i]
        IN  IF When(q, a, o, c)
            THEN IsDef(a[q]) /\ Val(a[q]) \in Choices(q, o)
            ELSE ~IsDef(a[q])

\* the questions presented: every question asked is answered
Presented(a) == {q \in DOMAIN a : IsDef(a[q])}

\* this.prompt(...): the series is asked; on a later run the operator gives the
\* answers of the run before
Prompting ==
    /\ Running("prompting")
    /\ IF IsDef(lastAnswers)
       THEN /\ Resolvable(Val(lastAnswers), options, config)
            /\ answers' = Val(lastAnswers)
       ELSE \E a \in AskFrom(1, NoAnswers, options, config) : answers' = a
    /\ phase' = "answered"
    /\ UNCHANGED <<status, exitCode, run, clock, args, envOptOut, clientSetUp, options,
                   config, webpackLibraryName, files, manifestJson, packageJson,
                   destinationRoot, events, lastOptions, lastAnswers, resolvedOptions, cmdVars>>

----------------------------------------------------------------------------
(* The generator: prompting, option resolution (the `then` of the series) *)

\* StripTrailingSlash with the slash kept
KeepTrailingSlash(host) == host

\* answers.host without its trailing slash
StripTrailingSlash(host) ==
    IF EndsWith(host, "/") THEN Substr(host, 0, Len(host) - 1) ELSE host

\* the part of the host after '://'
AfterScheme(host) == SubstringFrom(host, IndexOf(host, SchemeSeparator) + 3)

Hostname(host) == ToLocaleLowerCase(AfterScheme(host))

Namespace(host) == ToLocaleLowerCase(Join(Reverse(Split(AfterScheme(host), ".")), "."))

WebsitePrefix(host) ==
    IF IndexOf(host, AzureWebSites) >= 0
    THEN Substring(host, IndexOf(host, SchemeSeparator) + 3, IndexOf(host, <<".">>))
    ELSE WebsitePrefixPlaceholder

\* options.mpnId = answers.mpnId; if (options.mpnId && options.mpnId.length == 0) ...
MpnId(answer) ==
    IF TruthyStr(answer) /\ Len(Val(answer)) = 0 THEN Undefined ELSE answer

\* Uuid with the time left out
UuidWithoutTime(time) == [version |-> "v1", time |-> 0]

\* uuid(): a version 1 (time based) identifier
Uuid(time) == [version |-> "v1", time |-> time]

LibraryName(name) == CamelCase(name)
PackageName(libraryName) == ToLocaleLowerCase(libraryName)

\* answers.quickScaffolding || answers.lintingSupport
LintingSupport(a) ==
    IF TruthyBool(a.quickScaffolding) THEN a.quickScaffolding ELSE a.lintingSupport

\* this.options after the new-project branch
NewProjectOptions(o, a, time) ==
    LET host == StripTrailingSlash(Val(a.host))
        name == OrElseStr(o.solutionName, a.solutionName)
    IN  [o EXCEPT
            !.title = a.name,
            !.description = Some(GeneratorDescription),
            !.solutionName = name,
            !.shouldUseSubDir = Some(a.whichFolder = Some("subdir")),
            !.libraryName = Some(LibraryName(Val(name))),
            !.packageName = Some(PackageName(LibraryName(Val(name)))),
            !.developer = a.developer,
            !.host = Some(host),
            !.hostname = Some(Hostname(host)),
            !.manifestVersion = a.manifestVersion,
            !.mpnId = MpnId(a.mpnId),
            !.namespace = Some(Namespace(host)),
            !.id = Some(Uuid(time)),
            !.websitePrefix = Some(WebsitePrefix(host)),
            !.showLoadingIndicator = a.showLoadingIndicator,
            !.isFullScreen = a.isFullScreen,
            !.unitTestsEnabled = a.unitTestsEnabled,
            !.lintingSupport = LintingSupport(a),
            !.useAzureAppInsights = a.useAzureAppInsights,
            !.azureAppInsightsKey = a.azureAppInsightsKey]

\* the library name of an existing project: webpack.config.js, then the store, then
\* the name in package.json
ExistingLibraryName(webpack, c) ==
    IF IsDef(webpack) THEN webpack
    ELSE IF IsDef(c.libraryName) THEN c.libraryName
    ELSE Some("package.json name")

\* x || false on a stored boolean
OrFalse(x) == IF TruthyBool(x) THEN x ELSE Some(FALSE)

\* ExistingProjectOptions with an id generated as for a new project
ExistingProjectOptionsWithId(o, a, c, webpack) ==
    [o EXCEPT !.id = Some(Uuid(1)),
              !.updateManifestVersion = a.updateManifestVersion,
              !.updateBuildSystem = a.updateBuildSystem]

\* ExistingProjectOptions taking from the answers only, the manifest left unread
ExistingProjectOptionsFromAnswers(o, a, c, webpack) ==
    [o EXCEPT !.hostname = Some(<<>>),
              !.updateManifestVersion = a.updateManifestVersion,
              !.updateBuildSystem = a.updateBuildSystem]

\* this.options after the existing-project branch
ExistingProjectOptions(o, a, c, webpack) ==
    LET m == Val(o.existingManifest)
    IN  [o EXCEPT
            !.developer = Some(m.developerName),
            !.title = Some(m.nameShort),
            !.hostname = Some(<<>>),
            !.useAzureAppInsights = OrFalse(c.useAzureAppInsights),
            !.unitTestsEnabled = OrFalse(c.unitTestsEnabled),
            !.libraryName = ExistingLibraryName(webpack, c),
            !.host = Some(m.websiteUrl),
            !.updateManifestVersion = a.updateManifestVersion,
            !.manifestVersion =
                IF IsDef(a.manifestVersion) THEN a.manifestVersion
                ELSE GetManifestVersionFromValue(m.manifestVersion),
            !.updateBuildSystem = a.updateBuildSystem]

\* PartFlags raising the flags of the chosen parts and leaving the others alone
PartFlagsRaisedOnly(o, a) ==
    IF IsDef(a.parts)
    THEN [o EXCEPT
            !.bot = IF "bot" \in Val(a.parts) THEN Some(TRUE) ELSE @,
            !.tab = IF "tab" \in Val(a.parts) THEN Some(TRUE) ELSE @,
            !.connector = IF "connector" \in Val(a.parts) THEN Some(TRUE) ELSE @,
            !.customBot = IF "custombot" \in Val(a.parts) THEN Some(TRUE) ELSE @,
            !.messageExtension = IF "messageextension" \in Val(a.parts) THEN Some(TRUE) ELSE @,
            !.localization = IF "localization" \in Val(a.parts) THEN Some(TRUE) ELSE @]
    ELSE o

\* the part flags, set only when the parts question was answered
PartFlags(o, a) ==
    IF IsDef(a.parts)
    THEN [o EXCEPT
            !.bot = Some("bot" \in Val(a.parts)),
            !.tab = Some("tab" \in Val(a.parts)),
            !.connector = Some("connector" \in Val(a.parts)),
            !.customBot = Some("custombot" \in Val(a.parts)),
            !.messageExtension = Some("messageextension" \in Val(a.parts)),
            !.localization = Some("localization" \in Val(a.parts))]
    ELSE o

ResolvedOptions(o, a, c, webpack, time) ==
    LET branch == IF HasManifest(o) THEN ExistingProjectOptions(o, a, c, webpack)
                  ELSE NewProjectOptions(o, a, time)
    IN  [PartFlags(branch, a) EXCEPT !.reactComponents = Some(FALSE)]

\* Declined with the exit placed after the options were resolved
DeclinedAfterResolution ==
    /\ Running("answered")
    /\ IsFalse(answers.confirmedAdd)
    /\ options' = ResolvedOptions(options, answers, config, webpackLibraryName, clock)
    /\ ProcessExit(ExitDeclined)
    /\ UNCHANGED <<run, clock, args, envOptOut, clientSetUp, answers, config,
                   webpackLibraryName, files, manifestJson, packageJson,
                   destinationRoot, events, lastOptions, lastAnswers,
                   resolvedOptions, cmdVars>>

\* the operator declined to continue on an existing project
Declined ==
    /\ Running("answered")
    /\ IsFalse(answers.confirmedAdd)
    /\ ProcessExit(ExitDeclined)
    /\ UNCHANGED <<run, clock, args, envOptOut, clientSetUp, options, answers, config,
                   webpackLibraryName, files, manifestJson, packageJson,
                   destinationRoot, events, lastOptions, lastAnswers, resolvedOptions, cmdVars>>

Resolve ==
    /\ Running("answered")
    /\ ~IsFalse(answers.confirmedAdd)
    /\ options' = ResolvedOptions(options, answers, config, webpackLibraryName, clock)
    /\ config' = IF HasManifest(options) THEN config
                 ELSE [config EXCEPT !.libraryName = options'.libraryName]
    /\ destinationRoot' =
          IF ~HasManifest(options) /\ TruthyBool(options'.shouldUseSubDir)
          THEN "subdir" ELSE destinationRoot
    /\ resolvedOptions' = Some(options')
    /\ phase' = "composed"
    /\ UNCHANGED <<status, exitCode, run, clock, args, envOptOut, clientSetUp, answers,
                   webpackLibraryName, files, manifestJson, packageJson, events,
                   lastOptions, lastAnswers, cmdVars>>

\* the prompting of the composed generators (teams:tab, ...), which share
\* this.options: a tab may bring React components
ComposedGenerators ==
    /\ Running("composed")
    /\ \E react \in (IF TruthyBool(options.tab) THEN BOOLEAN ELSE {FALSE}) :
          options' = [options EXCEPT !.reactComponents = Some(react)]
    /\ phase' = "writing"
    /\ UNCHANGED <<status, exitCode, run, clock, args, envOptOut, clientSetUp, answers,
                   config, webpackLibraryName, files, manifestJson, packageJson,
                   destinationRoot, events, lastOptions, lastAnswers, resolvedOptions, cmdVars>>

----------------------------------------------------------------------------
(* The generator: writing *)

ManifestPath == "src/manifest/manifest.json"

StaticFiles ==
    {"_gitignore", "_vscode/launch.json", "src/server/tsconfig.json",
     "src/client/tsconfig.json", "src/manifest/icon-outline.png",
     "src/manifest/icon-color.png", "src/public/assets/icon.png",
     "src/public/styles/main.scss", "src/server/TeamsAppsComponents.ts", "Dockerfile"}
TemplateFiles ==
    {"README.md", "gulpfile.js", "package.json", ".env", "src/server/server.ts",
     "webpack.config.js", "src/client/client.ts", "src/public/index.html",
     "src/public/tou.html", "src/public/privacy.html"}
UnitTestFiles ==
    {"src/test/test-setup.js", "src/test/test-shim.js", "src/client/jest.config.js",
     "src/server/jest.config.js"}
LintFiles ==
    {"_eslintignore", "_eslintrc.json", "src/server/.eslintrc.json",
     "src/client/.eslintrc.json"}
\* the files CoreFilesUpdater.updateCoreFiles rewrites
CoreFiles == {"gulpfile.js", "webpack.config.js"}

UnitTestPackageEntries ==
    {"devDependencies:jest", "devDependencies:enzyme", "scripts:test",
     "scripts:coverage", "node:jest"}
LintPackageEntries == {"devDependencies:eslint", "scripts:lint"}

\* the files of a new project
NewProjectFiles(o) ==
    {ManifestPath} \cup TemplateFiles \cup StaticFiles
    \cup (IF TruthyBool(o.unitTestsEnabled) THEN UnitTestFiles ELSE {})
    \cup (IF TruthyBool(o.lintingSupport) THEN LintFiles ELSE {})

NewProjectPackageEntries(o) ==
    (IF TruthyBool(o.unitTestsEnabled) THEN UnitTestPackageEntries ELSE {})
    \cup (IF TruthyBool(o.lintingSupport) THEN LintPackageEntries ELSE {})

\* the dependencies added in either branch
AdditionalDeps(o) ==
    (IF TruthyBool(o.reactComponents)
        THEN {"dependencies:msteams-react-base-component"} ELSE {})
    \cup (IF TruthyBool(o.useAzureAppInsights)
        THEN {"dependencies:applicationinsights"} ELSE {})

\* StoreGeneratorVersion with the store left alone
StoreNoGeneratorVersion(c) == c

\* config.set("generator-version", pkg.version)
StoreGeneratorVersion(c) == [c EXCEPT !.generatorVersion = Some(PkgVersion)]

\* what follows the two branches: the added dependencies and the stored version
FinishWriting(newFiles, newPackageJson) ==
    /\ files' = newFiles
    /\ packageJson' = newPackageJson \cup AdditionalDeps(options)
    /\ config' = StoreGeneratorVersion(config)
    /\ phase' = "install"
    /\ UNCHANGED <<status, exitCode>>

\* the manifest regenerated by the update path of the generator for manifestVersion
UpdatedManifest(o) ==
    IF TruthyBool(o.updateManifestVersion)
    THEN Some([by |-> "updateManifest", version |-> o.manifestVersion,
               from |-> o.existingManifest])
    ELSE manifestJson

UpdatedManifestFiles(o) ==
    IF TruthyBool(o.updateManifestVersion) THEN {ManifestPath} ELSE {}

writingFrame ==
    <<run, clock, args, envOptOut, clientSetUp, options, answers, webpackLibraryName,
      destinationRoot, lastOptions, lastAnswers, resolvedOptions, cmdVars>>

WritingNewProject ==
    /\ Running("writing")
    /\ ~HasManifest(options)
    /\ manifestJson' = Some([by |-> "generateManifest", version |-> options.manifestVersion,
                             from |-> Undefined])
    /\ FinishWriting(files \cup NewProjectFiles(options),
                     packageJson \cup NewProjectPackageEntries(options))
    /\ UNCHANGED <<events, writingFrame>>

\* an existing project whose build system is not to be updated
WritingExistingProject ==
    /\ Running("writing")
    /\ HasManifest(options)
    /\ ~TruthyBool(options.updateBuildSystem)
    /\ manifestJson' = UpdatedManifest(options)
    /\ FinishWriting(files \cup UpdatedManifestFiles(options), packageJson)
    /\ UNCHANGED <<events, writingFrame>>

\* update of the build system with no stored generator version
WritingNothingToUpdate ==
    /\ Running("writing")
    /\ HasManifest(options)
    /\ TruthyBool(options.updateBuildSystem)
    /\ ~IsDef(config.generatorVersion)
    /\ IF TelemetryThrows
       THEN Crash
       ELSE /\ events' = Tracked({"update-core-files-empty"})
            /\ ProcessExit(ExitNothingToUpdate)
    /\ UNCHANGED <<files, manifestJson, packageJson, config, writingFrame>>

\* update of the build system from a version no updater exists for
WritingNoUpdater ==
    /\ Running("writing")
    /\ HasManifest(options)
    /\ TruthyBool(options.updateBuildSystem)
    /\ IsDef(config.generatorVersion)
    /\ ~HasCoreFilesUpdater(Val(config.generatorVersion))
    /\ IF TelemetryThrows
       THEN Crash
       ELSE /\ events' = Tracked({"update-core-files-failed"})
            /\ ProcessExit(ExitNoUpdater)
    /\ UNCHANGED <<files, manifestJson, packageJson, config, writingFrame>>

\* WritingUpdateCoreFiles with the manifest regenerated whatever the updater reports
WritingUpdateCoreFilesManifestAnyway ==
    /\ Running("writing")
    /\ HasManifest(options)
    /\ TruthyBool(options.updateBuildSystem)
    /\ IsDef(config.generatorVersion)
    /\ HasCoreFilesUpdater(Val(config.generatorVersion))
    /\ \E result \in BOOLEAN :
          IF TelemetryThrows
          THEN /\ Crash
               /\ files' = files \cup CoreFiles
               /\ UNCHANGED <<manifestJson, packageJson, config>>
          ELSE IF result = FALSE
          THEN /\ events' = Tracked({"update-core-files"})
               /\ ProcessExit(ExitUpdaterFailed)
               /\ manifestJson' = UpdatedManifest(options)
               /\ files' = files \cup CoreFiles \cup UpdatedManifestFiles(options)
               /\ UNCHANGED <<packageJson, config>>
          ELSE /\ events' = Tracked({"update-core-files"})
               /\ manifestJson' = UpdatedManifest(options)
               /\ FinishWriting(files \cup CoreFiles \cup UpdatedManifestFiles(options),
                                packageJson)
    /\ UNCHANGED writingFrame

\* update of the build system by the updater of the stored version, which reports
\* `result`
WritingUpdateCoreFiles ==
    /\ Running("writing")
    /\ HasManifest(options)
    /\ TruthyBool(options.updateBuildSystem)
    /\ IsDef(config.generatorVersion)
    /\ HasCoreFilesUpdater(Val(config.generatorVersion))
    /\ \E result \in BOOLEAN :
          IF TelemetryThrows
          THEN /\ Crash
               /\ files' = files \cup CoreFiles
               /\ UNCHANGED <<manifestJson, packageJson, config>>
          ELSE IF result = FALSE
          THEN /\ events' = Tracked({"update-core-files"})
               /\ ProcessExit(ExitUpdaterFailed)
               /\ files' = files \cup CoreFiles
               /\ UNCHANGED <<manifestJson, packageJson, config>>
          ELSE /\ events' = Tracked({"update-core-files"})
               /\ manifestJson' = UpdatedManifest(options)
               /\ FinishWriting(files \cup CoreFiles \cup UpdatedManifestFiles(options),
                                packageJson)
    /\ UNCHANGED writingFrame

----------------------------------------------------------------------------
(* The generator: install (usage reporting) and end *)

\* the events install() tracks
UsageEvents(o) ==
    (IF HasManifest(o) THEN {"rerun-generator"} ELSE {})
    \cup {"end-generator"}
    \cup (IF TruthyBool(o.bot) THEN {"bot", "bot-new"} ELSE {})
    \cup (IF TruthyBool(o.messageExtension) THEN {"messageExtension"} ELSE {})
    \cup (IF TruthyBool(o.connector) THEN {"connector"} ELSE {})
    \cup (IF TruthyBool(o.customBot) THEN {"outgoingWebhook"} ELSE {})
    \cup (IF TruthyBool(o.tab) THEN {"tab"} ELSE {})
    \cup (IF TruthyBool(o.unitTestsEnabled) THEN {"unitTests"} ELSE {})
    \cup (IF TruthyBool(o.showLoadingIndicator) THEN {"showLoadingIndicator"} ELSE {})
    \cup (IF TruthyBool(o.isFullScreen) THEN {"isFullScreen"} ELSE {})
    \cup (IF TruthyBool(o.updateManifestVersion) THEN {"updateManifest"} ELSE {})
    \cup (IF TruthyBool(o.localization) THEN {"localization"} ELSE {})

Install ==
    /\ Running("install")
    /\ IF TelemetryThrows
       THEN Crash
       ELSE /\ events' = Tracked(UsageEvents(options))
            /\ phase' = "end"
            /\ UNCHANGED <<status, exitCode>>
    /\ UNCHANGED <<run, clock, args, envOptOut, clientSetUp, options, answers, config,
                   webpackLibraryName, files, manifestJson, packageJson,
                   destinationRoot, lastOptions, lastAnswers, resolvedOptions, cmdVars>>

End ==
    /\ Running("end")
    /\ phase' = "finished"
    /\ UNCHANGED <<status, exitCode, run, clock, args, envOptOut, clientSetUp, options,
                   answers, config, webpackLibraryName, files, manifestJson,
                   packageJson, destinationRoot, events, lastOptions, lastAnswers,
                   resolvedOptions, cmdVars>>

\* the operator starts the generator again, later, in another empty folder, with
\* the same arguments and environment
RunAgain ==
    /\ Running("finished")
    /\ ~HasManifest(options)
    /\ run < MaxRuns
    /\ run' = run + 1
    /\ clock' = clock + 1
    /\ lastOptions' = resolvedOptions
    /\ resolvedOptions' = Undefined
    /\ lastAnswers' = Some(answers)
    /\ phase' = "initializing"
    /\ options' = ConstructedOptions(args, options.telemetry, Undefined)
    /\ answers' = NoAnswers
    /\ config' = EmptyConfig
    /\ files' = {}
    /\ manifestJson' = Undefined
    /\ packageJson' = {}
    /\ destinationRoot' = "cwd"
    /\ events' = IF clientSetUp THEN {"start-generator"} ELSE {}
    /\ UNCHANGED <<status, exitCode, args, envOptOut, clientSetUp, webpackLibraryName,
                   cmdVars>>

Next ==
    \/ Initializing
    \/ Prompting
    \/ Declined
    \/ Resolve
    \/ ComposedGenerators
    \/ WritingNewProject
    \/ WritingExistingProject
    \/ WritingNothingToUpdate
    \/ WritingNoUpdater
    \/ WritingUpdateCoreFiles
    \/ Install
    \/ End

Spec == Init /\ [][Next]_vars

\* new projects generated one after the other
NextNewProjects ==
    \/ Initializing
    \/ Prompting
    \/ Resolve
    \/ ComposedGenerators
    \/ WritingNewProject
    \/ Install
    \/ End
    \/ RunAgain

SpecNewProjects == InitNewProject /\ [][NextNewProjects]_vars

----------------------------------------------------------------------------
(* The editor command: Scaffolder.createProject *)

PROJECT_FILE == "project.pnp"
YoCommand == "yo teams --skip-install"

\* path.join(folder, name): paths are sequences of segments
PathJoin(folder, name) == folder \o <<name>>

WorkspacePath == <<"work", "space">>
BrowsedPath == <<"home", "projects">>
\* the names the operator may type into the input box
TypedNames == {"", "app", "old"}
\* the folders that may exist under the parent folders before the command runs
PossibleFolders == {PathJoin(WorkspacePath, "old"), PathJoin(BrowsedPath, "old")}
\* the completion statuses of the subprocess: the generator's exit codes
CompletionStatuses ==
    {ExitDeclined, ExitUnsupportedSchema, ExitNoUpdater, ExitNothingToUpdate,
     ExitUpdaterFailed}

\* the generator while the command is looked at alone
GeneratorNotStarted ==
    /\ phase = "initializing"
    /\ status = "not started"
    /\ exitCode = {}
    /\ args = NoArguments
    /\ envOptOut = FALSE
    /\ clientSetUp = FALSE
    /\ options = ConstructedOptions(NoArguments, FALSE, Undefined)
    /\ answers = NoAnswers
    /\ config = EmptyConfig
    /\ webpackLibraryName = Undefined
    /\ files = {}
    /\ manifestJson = Undefined
    /\ packageJson = {}
    /\ destinationRoot = "cwd"
    /\ events = {}
    /\ resolvedOptions = Undefined
    /\ FirstRun

InitCommand ==
    /\ GeneratorNotStarted
    /\ tpc = "getFolderPath"
    /\ wsFolder \in Opt({WorkspacePath})
    /\ existingFolders \in SUBSET PossibleFolders
    /\ platform \in {"windows", "linux"}
    /\ folderPath = Undefined
    /\ inputValue = Undefined
    /\ typed = 0
    /\ solutionName = Undefined
    /\ invocations = <<>>
    /\ commandResult = Undefined
    /\ markerFiles = {}
    /\ openedFolders = <<>>
    /\ notifications = <<>>
    /\ logged = <<>>
    /\ unhandled = FALSE

At(p) == tpc = p

\* getFolderPath: what the quick pick and the open dialog can return
FolderPathResults(ws) ==
    {Undefined, Some(BrowsedPath)} \cup (IF IsDef(ws) THEN {ws} ELSE {})

\* createProject up to the input box: the parent folder is asked for
GetFolderPath ==
    /\ At("getFolderPath")
    /\ \E picked \in FolderPathResults(wsFolder) :
          /\ folderPath' = picked
          /\ IF ~IsDef(picked)
             THEN /\ notifications' = Append(notifications, <<"warning", "select parent folder">>)
                  /\ tpc' = "returned"
             ELSE /\ tpc' = "getSolutionName"
                  /\ UNCHANGED notifications
    /\ UNCHANGED <<wsFolder, existingFolders, inputValue, typed, solutionName, invocations,
                   commandResult, platform, markerFiles, openedFolders, logged,
                   unhandled, genVars>>

\* ValidateInput without the check for an existing folder
ValidateInputRequiredOnly(folder, value, existing) ==
    IF value = "" THEN "Solution name is required" ELSE ""

\* validateInput of the input box: the message shown, or "" when the value is accepted
ValidateInput(folder, value, existing) ==
    IF value = "" THEN "Solution name is required"
    ELSE IF PathJoin(folder, value) \in existing THEN "Folder already exists"
    ELSE ""

\* the operator types a name into the input box
TypeSolutionName ==
    /\ At("getSolutionName")
    /\ typed < MaxTyped
    /\ \E value \in TypedNames : inputValue' = Some(value)
    /\ typed' = typed + 1
    /\ UNCHANGED <<tpc, wsFolder, existingFolders, folderPath, solutionName, invocations,
                   commandResult, platform, markerFiles, openedFolders, notifications,
                   logged, unhandled, genVars>>

\* the text of the input box: empty until something is typed
BoxText == IF IsDef(inputValue) THEN Val(inputValue) ELSE ""

\* the operator confirms the input box, which accepts only a value that validates
AcceptSolutionName ==
    /\ At("getSolutionName")
    /\ ValidateInput(Val(folderPath), BoxText, existingFolders) = ""
    /\ solutionName' = Some(BoxText)
    /\ IF BoxText = ""
       THEN /\ logged' = Append(logged, <<"warning", "Cancelled solution name input">>)
            /\ tpc' = "returned"
       ELSE /\ tpc' = "execute"
            /\ UNCHANGED logged
    /\ UNCHANGED <<wsFolder, existingFolders, folderPath, inputValue, typed, invocations,
                   commandResult, platform, markerFiles, openedFolders, notifications,
                   unhandled, genVars>>

\* the operator dismisses the input box
CancelSolutionName ==
    /\ At("getSolutionName")
    /\ solutionName' = Undefined
    /\ logged' = Append(logged, <<"warning", "Cancelled solution name input">>)
    /\ tpc' = "returned"
    /\ UNCHANGED <<wsFolder, existingFolders, folderPath, inputValue, typed, invocations,
                   commandResult, platform, markerFiles, openedFolders, notifications,
                   unhandled, genVars>>

\* Executer.executeCommand(folderPath, yoCommand) inside the progress indicator
ExecuteCommand ==
    /\ At("execute")
    /\ invocations' = Append(invocations, <<Val(folderPath), YoCommand>>)
    /\ tpc' = "awaitCommand"
    /\ UNCHANGED <<wsFolder, existingFolders, folderPath, inputValue, typed, solutionName,
                   commandResult, platform, markerFiles, openedFolders, notifications,
                   logged, unhandled, genVars>>

\* CommandFails without the return after the notification
CommandFailsAndGoesOn ==
    /\ At("awaitCommand")
    /\ \E result \in CompletionStatuses \ {0} : commandResult' = Some(result)
    /\ notifications' = Append(notifications, <<"error", "Failed to create the project">>)
    /\ tpc' = "createProjectFile"
    /\ UNCHANGED <<wsFolder, existingFolders, folderPath, inputValue, typed, solutionName,
                   invocations, platform, markerFiles, openedFolders, logged, unhandled,
                   genVars>>

\* the subprocess completes with a non-zero status
CommandFails ==
    /\ At("awaitCommand")
    /\ \E result \in CompletionStatuses \ {0} : commandResult' = Some(result)
    /\ notifications' = Append(notifications, <<"error", "Failed to create the project">>)
    /\ tpc' = "returned"
    /\ UNCHANGED <<wsFolder, existingFolders, folderPath, inputValue, typed, solutionName,
                   invocations, platform, markerFiles, openedFolders, logged, unhandled,
                   genVars>>

\* executeCommand rejects: the catch of the progress callback
CommandRejects ==
    /\ At("awaitCommand")
    /\ logged' = Append(logged, <<"error", "executeCommand">>)
    /\ notifications' = Append(notifications, <<"error", "Error creating the project">>)
    /\ tpc' = "returned"
    /\ UNCHANGED <<wsFolder, existingFolders, folderPath, inputValue, typed, solutionName,
                   invocations, commandResult, platform, markerFiles, openedFolders,
                   unhandled, genVars>>

\* the subprocess completes with status 0; it may have created the solution folder
CommandSucceeds ==
    /\ At("awaitCommand")
    /\ commandResult' = Some(0)
    /\ \E created \in SUBSET {PathJoin(Val(folderPath), Val(solutionName))} :
          existingFolders' = existingFolders \cup created
    /\ tpc' = "createProjectFile"
    /\ UNCHANGED <<wsFolder, folderPath, inputValue, typed, solutionName, invocations,
                   platform, markerFiles, openedFolders, notifications, logged,
                   unhandled, genVars>>

NewFolderPath == PathJoin(Val(folderPath), Val(solutionName))

\* CreateProjectFile without the write of the marker file
CreateProjectFileSkipped ==
    /\ At("createProjectFile")
    /\ tpc' = "openFolder"
    /\ UNCHANGED <<wsFolder, existingFolders, folderPath, inputValue, typed, solutionName,
                   invocations, commandResult, platform, markerFiles, openedFolders,
                   notifications, logged, unhandled, genVars>>

\* createProjectFileAndOpen, not awaited by its caller: writeFileSync, which throws
\* when the folder does not exist; the promise then rejects and nothing handles it
CreateProjectFile ==
    /\ At("createProjectFile")
    /\ IF NewFolderPath \in existingFolders
       THEN /\ markerFiles' = markerFiles \cup
                    {<<PathJoin(NewFolderPath, PROJECT_FILE), "init", "utf8">>}
            /\ tpc' = "openFolder"
            /\ UNCHANGED unhandled
       ELSE /\ unhandled' = TRUE
            /\ tpc' = "returned"
            /\ UNCHANGED markerFiles
    /\ UNCHANGED <<wsFolder, existingFolders, folderPath, inputValue, typed, solutionName,
                   invocations, commandResult, platform, openedFolders, notifications,
                   logged, genVars>>

\* the uri handed to vscode.openFolder
FolderUri(path, os) ==
    IF os = "windows" THEN <<"Uri.file", "parseWinPath", path>> ELSE <<"Uri.parse", path>>

\* commands.executeCommand('vscode.openFolder', uri), which may reject
OpenFolder ==
    /\ At("openFolder")
    /\ openedFolders' = Append(openedFolders, FolderUri(NewFolderPath, platform))
    /\ \E rejected \in BOOLEAN : unhandled' = rejected
    /\ tpc' = "returned"
    /\ UNCHANGED <<wsFolder, existingFolders, folderPath, inputValue, typed, solutionName,
                   invocations, commandResult, platform, markerFiles, notifications,
                   logged, genVars>>

NextCommand ==
    \/ GetFolderPath
    \/ TypeSolutionName
    \/ AcceptSolutionName
    \/ CancelSolutionName
    \/ ExecuteCommand
    \/ CommandFails
    \/ CommandRejects
    \/ CommandSucceeds
    \/ CreateProjectFile
    \/ OpenFolder

SpecCommand == InitCommand /\ [][NextCommand]_vars

----------------------------------------------------------------------------
(* Claims about the generator's fatal exits *)

NothingWritten == files = {} /\ manifestJson = Undefined /\ packageJson = {}

\* C1: with an existing manifest at startup, a supported schema version lets the flow
\* proceed to prompting, and an unsupported one makes initializing end the process
\* with exit code 1 before any file or store write.
C1_SchemaCheck ==
    [][(Running("initializing") /\ HasManifest(options)) =>
          IF IsSchemaVersionValid(options.existingManifest)
          THEN phase' = "prompting" /\ status' = "running"
          ELSE /\ status' = "exited"
               /\ exitCode' = {ExitUnsupportedSchema}
               /\ NothingWritten'
               /\ config' = config]_vars

\* C2: in the existing-project branch of the write phase, with updateBuildSystem set
\* and no stored generator version, the flow exits with code 3, writes no file and
\* does not store the generator version.
C2_NothingToUpdate ==
    [][(/\ Running("writing")
        /\ HasManifest(options)
        /\ TruthyBool(options.updateBuildSystem)
        /\ ~IsDef(config.generatorVersion)) =>
          /\ status' = "exited"
          /\ exitCode' = {ExitNothingToUpdate}
          /\ NothingWritten'
          /\ config' = config]_vars

UpdatingBuildSystem ==
    /\ Running("writing")
    /\ HasManifest(options)
    /\ TruthyBool(options.updateBuildSystem)
    /\ IsDef(config.generatorVersion)

FatalExitCodes ==
    <<ExitUnsupportedSchema, ExitNoUpdater, ExitNothingToUpdate, ExitUpdaterFailed>>

\* C3: with updateBuildSystem set and a stored version, a missing updater ends the
\* flow with exit code 2 and an updater that reports failure (the only way the write
\* phase of such a run stops short of its end) with exit code 4; the fatal
\* conditions have the pairwise distinct codes 1, 2, 3, 4 and never yield 0.
C3_FatalExitCodes ==
    [][/\ (UpdatingBuildSystem /\ ~HasCoreFilesUpdater(Val(config.generatorVersion))) =>
             status' = "exited" /\ exitCode' = {ExitNoUpdater}
       /\ (UpdatingBuildSystem /\ HasCoreFilesUpdater(Val(config.generatorVersion))
             /\ phase' = "writing") =>
             status' = "exited" /\ exitCode' = {ExitUpdaterFailed}
       /\ FatalExitCodes = <<1, 2, 3, 4>>
       /\ (status' = "exited" /\ exitCode' = {0}) => IsFalse(answers.confirmedAdd)]_vars

\* C4: when the operator answers the continue-confirmation with no, the flow ends
\* with exit status 0 and performs no writes: this.options is as the constructor
\* left it, no file is written and the store is not touched.
C4_DeclinedWritesNothing ==
    /\ [](IsFalse(answers.confirmedAdd) =>
            /\ phase = "answered"
            /\ options = ConstructedOptions(args, options.telemetry, options.existingManifest)
            /\ NothingWritten
            /\ status = "exited" => exitCode = {ExitDeclined})
    /\ [][(Running("answered") /\ IsFalse(answers.confirmedAdd)) =>
            /\ status' = "exited"
            /\ exitCode' = {ExitDeclined}
            /\ config' = config]_vars

C4_Witness ==
    /\ status = "exited"
    /\ IsFalse(answers.confirmedAdd)
    /\ IsDef(config.generatorVersion)
    /\ Val(config.generatorVersion) # PkgVersion

----------------------------------------------------------------------------
(* Claims about the stored generator version and option resolution *)

\* the write phase was entered and is over: left at its end, or ended inside
WritePhaseOver ==
    \/ phase = "writing" /\ status # "running"
    \/ phase \in {"install", "end", "finished"}

\* C5, as claimed: every run that enters the write phase has the tool's version in
\* the store when the write phase is over.
C5_StoredUnconditionally ==
    WritePhaseOver => config.generatorVersion = Some(PkgVersion)

\* C5, amended: when the write phase is over, the store holds the tool's version
\* exactly if the write phase ran to its end; a write phase that ended inside (a
\* fatal exit, a throwing telemetry call) left the stored version as it was.
C5_StoredAtEndOfWriting ==
    WritePhaseOver => (config.generatorVersion = Some(PkgVersion) <=> phase # "writing")

C5_Witness ==
    /\ phase = "install"
    /\ TruthyBool(options.updateBuildSystem)
    /\ config.generatorVersion = Some(PkgVersion)

\* option resolution ran for a new project
ResolvedNewProject == IsDef(resolvedOptions) /\ ~HasManifest(options)

\* foo.azurewebsites.net, net.azurewebsites.foo
FooHostname == <<"f","o","o",".">> \o AzureWebSites
FooNamespace == <<"n","e","t",".","a","z","u","r","e","w","e","b","s","i","t","e","s",
                  ".","f","o","o">>

FooHostResolved(websitePrefix) ==
    (ResolvedNewProject /\ answers.host = Some(HostFooSlash)) =>
        /\ Val(resolvedOptions).host = Some(HostFoo)
        /\ Val(resolvedOptions).hostname = Some(FooHostname)
        /\ Val(resolvedOptions).namespace = Some(FooNamespace)
        /\ Val(resolvedOptions).websitePrefix = Some(websitePrefix)

\* C6, as claimed: the host answer https://Foo.azurewebsites.net/ resolves to host
\* https://Foo.azurewebsites.net, hostname foo.azurewebsites.net, namespace
\* net.azurewebsites.foo and website prefix foo.
C6_FooHostLowerPrefix == FooHostResolved(<<"f","o","o">>)

\* C6, amended: the same host, hostname and namespace, and the website prefix Foo,
\* in the case the operator typed it.
C6_FooHost == FooHostResolved(<<"F","o","o">>)

C6_Witness == ResolvedNewProject /\ answers.host = Some(HostFooSlash)

\* C7: for a new project an empty MPN id answer resolves to an undefined mpnId, and a
\* non-empty answer is kept.
C7_EmptyMpnIdUndefined ==
    ResolvedNewProject =>
        /\ answers.mpnId = Some(<<>>) => Val(resolvedOptions).mpnId = Undefined
        /\ TruthyStr(answers.mpnId) => Val(resolvedOptions).mpnId = answers.mpnId

----------------------------------------------------------------------------
(* Claims about the editor command *)

\* C9: the subprocess is invoked at most once, only with a parent folder and an
\* accepted solution name (not empty, its subfolder not existing); a cancelled
\* input ends the command without invoking it.
C9_InvokedOnlyWithAcceptedName ==
    /\ Len(invocations) <= 1
    /\ invocations # <<>> =>
          /\ IsDef(folderPath) /\ IsDef(solutionName)
          /\ Val(solutionName) # ""
          /\ invocations[1] = <<Val(folderPath), YoCommand>>
    /\ tpc \in {"execute", "awaitCommand"} =>
          /\ IsDef(folderPath) /\ IsDef(solutionName)
          /\ Val(solutionName) # ""
          /\ PathJoin(Val(folderPath), Val(solutionName)) \notin existingFolders
    /\ (tpc = "returned" /\ (~IsDef(folderPath) \/ ~IsDef(solutionName))) =>
          invocations = <<>>

C9_Witness ==
    /\ tpc = "awaitCommand"
    /\ typed > 1
    /\ PathJoin(Val(folderPath), "old") \in existingFolders

\* C10: when the subprocess completes with a non-zero status, the failure
\* notification is shown and the command stops: no marker file is written and no
\* folder is opened.
C10_FailureStops ==
    (IsDef(commandResult) /\ Val(commandResult) # 0) =>
        /\ tpc = "returned"
        /\ notifications = << <<"error", "Failed to create the project">> >>
        /\ markerFiles = {}
        /\ openedFolders = <<>>
        /\ ~unhandled

C10_Witness ==
    /\ IsDef(commandResult)
    /\ Val(commandResult) = ExitNothingToUpdate
    /\ tpc = "returned"

\* the subfolder join(parentFolder, solutionName)
SolutionFolder == PathJoin(Val(folderPath), Val(solutionName))

C12_FailuresCaught ==
    /\ ~unhandled
    /\ (tpc = "returned" /\ invocations # <<>> /\ ~IsDef(commandResult)) =>
          /\ logged = << <<"error", "executeCommand">> >>
          /\ notifications = << <<"error", "Error creating the project">> >>

----------------------------------------------------------------------------
(* Claims about telemetry *)

\* C13: with the environment opt-out set, no telemetry event or exception is emitted
\* in any phase (constructor, schema check, write phase, usage reporting), whatever
\* the telemetry option is.
C13_OptOutEmitsNothing == envOptOut => events = {}

C13_Witness ==
    /\ envOptOut
    /\ options.telemetry
    /\ phase = "install"
    /\ status # "running"

\* C14: no run ends inside a telemetry call: whatever the telemetry option, the
\* environment opt-out and the availability of the telemetry client, a run stops
\* only by process.exit or at the end of the end phase.
C14_TelemetryNeverAborts == status # "crashed"

----------------------------------------------------------------------------
(* Claims about the two branches and the resolved options *)

\* C15: the branch is fixed by the manifest read at startup and never changes: after
\* option resolution a run without a manifest has no updateManifestVersion and no
\* updateBuildSystem, and its write phase writes the new project (generated
\* manifest, skeleton files) and nothing else; a run with a manifest has no generated
\* id, shouldUseSubDir, websitePrefix or mpnId, stays in the current folder and
\* writes no skeleton file and no generated manifest.
C15_BranchesExclusive ==
    /\ [](IsDef(resolvedOptions) =>
            IF ~IsDef(options.existingManifest)
            THEN /\ options.updateManifestVersion = Undefined
                 /\ options.updateBuildSystem = Undefined
                 /\ IsDef(options.id)
                 /\ exitCode = {}
                 /\ IsDef(manifestJson) => Val(manifestJson).by = "generateManifest"
            ELSE /\ options.id = Undefined
                 /\ options.shouldUseSubDir = Undefined
                 /\ options.websitePrefix = Undefined
                 /\ options.mpnId = Undefined
                 /\ destinationRoot = "cwd"
                 /\ files \subseteq (CoreFiles \cup {ManifestPath})
                 /\ IsDef(manifestJson) => Val(manifestJson).by = "updateManifest")
    /\ [][/\ options'.existingManifest = options.existingManifest
           /\ (Running("writing") /\ ~IsDef(options.existingManifest)) =>
                 /\ phase' = "install"
                 /\ (StaticFiles \cup TemplateFiles \cup {ManifestPath}) \subseteq files'
                 /\ IsDef(manifestJson')]_vars

C15_Witness ==
    /\ IsDef(resolvedOptions)
    /\ IsDef(options.existingManifest)
    /\ phase = "install"
    /\ TruthyBool(options.updateManifestVersion)
    /\ TruthyBool(options.updateBuildSystem)

\* the six part flags of an options record
Flags(o) ==
    [tab |-> o.tab, bot |-> o.bot, connector |-> o.connector, custombot |-> o.customBot,
     messageextension |-> o.messageExtension, localization |-> o.localization]

\* C16: after option resolution with the parts answer P, each of the flags tab, bot,
\* connector, customBot, messageExtension and localization is true exactly when its
\* part identifier is in P, whatever the flag was before.
C16_FlagsFollowParts ==
    (IsDef(resolvedOptions) /\ IsDef(answers.parts)) =>
        /\ \A part \in DOMAIN Flags(options) :
              Flags(Val(resolvedOptions))[part] = Some(part \in Val(answers.parts))
        /\ Flags(options) = Flags(Val(resolvedOptions))

C16_Witness ==
    /\ IsDef(resolvedOptions)
    /\ args.tab = Some(TRUE)
    /\ answers.parts = Some({})

\* option resolution ran for an existing project
ResolvedExistingProject == IsDef(resolvedOptions) /\ IsDef(options.existingManifest)

ManifestFieldsResolved(hostname) ==
    ResolvedExistingProject =>
        /\ Val(resolvedOptions).developer = Some(Val(options.existingManifest).developerName)
        /\ Val(resolvedOptions).title = Some(Val(options.existingManifest).nameShort)
        /\ Val(resolvedOptions).hostname = Some(hostname)

\* C17, as claimed: for an existing project the developer name, the title and the
\* hostname are those of the existing manifest: developer.name, name.short and the
\* host name of developer.websiteUrl.
C17_ReadFromManifest ==
    ManifestFieldsResolved(
        IF ResolvedExistingProject
        THEN Hostname(Val(options.existingManifest).websiteUrl) ELSE <<>>)

\* C17, amended: the developer name and the title are those of the existing
\* manifest, the hostname is the empty string, and the host is the manifest's
\* developer.websiteUrl as it stands.
C17_ManifestFieldsEmptyHostname ==
    /\ ManifestFieldsResolved(<<>>)
    /\ ResolvedExistingProject =>
          Val(resolvedOptions).host = Some(Val(options.existingManifest).websiteUrl)

C17_Witness ==
    /\ ResolvedExistingProject
    /\ Val(options.existingManifest).websiteUrl = HostMyApp
    /\ args.host = Some(HostExample)

\* the supported version v is flagged hidden
Hidden(v) ==
    \E i \in 1..Len(SupportedManifestVersions) :
        SupportedManifestVersions[i].manifestVersion = v /\ SupportedManifestVersions[i].hide

\* the supported versions the operator may be offered for the manifest read at startup
Offered(manifest) ==
    {SupportedManifestVersions[i].manifestVersion : i \in
        {j \in 1..Len(SupportedManifestVersions) :
            IF IsDef(manifest)
            THEN SupportsUpdateManifest(SupportedManifestVersions[j].manifestVersion,
                                        Val(manifest).manifestVersion)
            ELSE ~SupportedManifestVersions[j].hide}}

\* C18: the manifest versions offered are, with an existing manifest, the supported
\* versions whose generator supports updating from the existing manifest's version
\* and, without one, the supported versions not flagged hidden; so a version answered
\* for a new project is never hidden, and a manifest is only ever updated towards a
\* version whose generator supports updating from the existing version.
C18_OfferedVersions ==
    /\ IsDef(answers.manifestVersion) =>
          Val(answers.manifestVersion) \in Offered(options.existingManifest)
    /\ (ResolvedNewProject /\ IsDef(answers.manifestVersion)) =>
          /\ Val(resolvedOptions).manifestVersion = answers.manifestVersion
          /\ ~Hidden(Val(answers.manifestVersion))
    /\ (IsDef(manifestJson) /\ Val(manifestJson).by = "updateManifest") =>
          SupportsUpdateManifest(Val(Val(manifestJson).version),
                                 Val(Val(manifestJson).from).manifestVersion)

C18_Witness ==
    /\ IsDef(manifestJson)
    /\ Val(manifestJson).by = "updateManifest"
    /\ Val(manifestJson).version = Some("devPreview")
    /\ Val(options.existingManifest).manifestVersion = "1.13"

\* the host is under azurewebsites.net: its host name ends with .azurewebsites.net
IsAzureWebAppHost(host) ==
    LET name == Hostname(host)
        suffix == <<".">> \o AzureWebSites
    IN  /\ Len(name) > Len(suffix)
        /\ SubSeq(name, Len(name) - Len(suffix) + 1, Len(name)) = suffix

\* the first host-name label: the text between '://' and the first '.'
FirstLabel(host) ==
    LET rest == AfterScheme(host)
    IN  SubSeq(rest, 1, IndexOf(rest, <<".">>))

\* C19: for a new project the website prefix is the first host-name label for every
\* host under azurewebsites.net, and the placeholder [your Azure web app name] for
\* every other host.
C19_WebsitePrefix ==
    ResolvedNewProject =>
        LET host == Val(Val(resolvedOptions).host)
        IN  Val(resolvedOptions).websitePrefix =
                Some(IF IsAzureWebAppHost(host) THEN FirstLabel(host)
                     ELSE WebsitePrefixPlaceholder)

----------------------------------------------------------------------------
(* Claims about the question series *)

\* C20: once the continue-confirmation is answered with no, no further question of
\* the series is presented before the process exits.
C20_NoQuestionAfterDeclining ==
    IsFalse(answers.confirmedAdd) => Presented(answers) = {"confirmedAdd"}

\* the prompt series is over and the write phase has not stored the version yet
BeforeVersionStored == phase \in {"answered", "composed", "writing"}

\* C21: the build-system update question is offered, and updateBuildSystem can be
\* true, only with an existing manifest, a confirmed continuation and a stored
\* generator version other than the tool's own; a stored version equal to the tool's
\* never leads to a core-files update; and no run ends in the 'nothing to update'
\* exit, a project with no stored version not being offered the update.
C21_BuildSystemQuestion ==
    /\ [](/\ (IsDef(answers.updateBuildSystem) /\ BeforeVersionStored) =>
              /\ IsDef(options.existingManifest)
              /\ answers.confirmedAdd = Some(TRUE)
              /\ config.generatorVersion # Some(PkgVersion)
          /\ TruthyBool(options.updateBuildSystem) =>
              answers.updateBuildSystem = Some(TRUE)
          /\ (~IsDef(config.generatorVersion) /\ BeforeVersionStored) =>
              ~IsDef(answers.updateBuildSystem)
          /\ exitCode # {ExitNothingToUpdate})
    /\ [][(/\ Running("writing")
           /\ IsDef(options.existingManifest)
           /\ config.generatorVersion = Some(PkgVersion)) =>
             /\ files' \cap CoreFiles = {}
             /\ events' = events]_vars

----------------------------------------------------------------------------
(* Claims about the write phase of an existing project *)

\* C22: in the write phase of an existing project the manifest is regenerated only
\* when updateManifestVersion is requested, by the update path of the generator for
\* manifestVersion applied to the manifest read at startup, and only in a write phase
\* that ran to its end; with updateBuildSystem requested as well the core files were
\* updated (and the update reported) before it, and a write phase ended by a fatal
\* exit of the core-files update leaves the manifest unwritten.
C22_CoreFilesBeforeManifest ==
    ResolvedExistingProject =>
        /\ IsDef(manifestJson) <=> ManifestPath \in files
        /\ IsDef(manifestJson) =>
              /\ TruthyBool(options.updateManifestVersion)
              /\ manifestJson = Some([by |-> "updateManifest",
                                      version |-> options.manifestVersion,
                                      from |-> options.existingManifest])
              /\ phase \in {"install", "end", "finished"}
              /\ exitCode = {}
              /\ TruthyBool(options.updateBuildSystem) =>
                    /\ CoreFiles \subseteq files
                    /\ options.telemetry => "update-core-files" \in events
        /\ (phase = "writing" /\ status # "running") => ~IsDef(manifestJson)
        /\ (phase \in {"install", "end", "finished"}
              /\ TruthyBool(options.updateManifestVersion)) => IsDef(manifestJson)

C22_Witness ==
    /\ ResolvedExistingProject
    /\ IsDef(manifestJson)
    /\ TruthyBool(options.updateBuildSystem)
    /\ CoreFiles \subseteq files
    /\ options.telemetry

====
